---- MODULE Spec2Model ----
(***************************************************************************)
(* Model of LivisiDataUpdateCoordinator                                    *)
(* (custom_components/livisi/coordinator.py): the poll cycle with its      *)
(* token-refresh retry, the capability index, the websocket lifecycle      *)
(* with reconnect-on-close, and the translation of stream events into      *)
(* bus events and dispatcher publishes.                                    *)
(*                                                                         *)
(* Python values are modelled as strings: None is the token "None", and    *)
(* False, 0, 42, "" are the tokens "False", "0", "42", "".  A dict is a    *)
(* function whose DOMAIN is its key set.                                   *)
(***************************************************************************)
EXTENDS Integers, Sequences, FiniteSets, TLC

VARIABLES
    devices,                \* self.devices: set of known device ids
    capability_to_device,   \* self.capability_to_device: dict capability id -> device id
    data,                   \* self.data: the device snapshot of the last successful poll
    serial_number,          \* self.serial_number
    controller_type,        \* self.controller_type
    is_avatar,              \* self.is_avatar
    port,                   \* self.port
    rooms,                  \* self.rooms: dict room id -> room name
    livisi_connection_data, \* self.aiolivisi.livisi_connection_data is set (truthy)
    pc,                     \* where _async_update_data is suspended
    cycle,                  \* what the current (or last) poll cycle has called so far
    outcome,                \* how the last poll cycle ended
    result,                 \* the list the last poll cycle returned
    fetched,                \* the list the vendor client returned to the last fetch
    setupPc,                \* where async_setup is suspended
    setupOutcome,           \* how the last async_setup ended
    controller_data,        \* the metadata async_get_controller returned last
    query,                  \* the last async_get_device_state: its call and its result
    lookup,                 \* the latest two calls of get_room_name
    streams,                \* one record per ws_connect call: the stream it started
    closes,                 \* number of stream closures signalled so far
    event,                  \* the event last handed to on_data
    out,                    \* what the last handler sent, in order: publishes and connect calls
    fired,                  \* what the last handler fired on the host bus, in order
    raised,                 \* the exception the last handler raised, None if it returned
    during                  \* where _async_update_data was suspended when that handler ran

vars == <<devices, capability_to_device, data, serial_number, controller_type,
          is_avatar, port, rooms, livisi_connection_data, pc, cycle, outcome,
          result, fetched, setupPc, setupOutcome, controller_data, query, lookup,
          streams, closes, event, out, fired, raised, during>>

descVars == <<serial_number, controller_type, is_avatar, port>>
coordVars == <<devices, capability_to_device, data, serial_number,
               controller_type, is_avatar, port, rooms>>
setupVars == <<setupPc, setupOutcome, controller_data>>
queryVars == <<query, lookup>>
pollVars == <<pc, cycle, outcome, result, fetched>>
streamVars == <<streams, closes>>
sinkVars == <<event, out, fired, raised, during>>

----------------------------------------------------------------------------
(* Bounds *)

MaxDevices == 2     \* longest device list the vendor client returns
MaxStreams == 2     \* number of ws_connect calls
MaxCloses == 2      \* number of closures the transport signals

(* Program constants *)

AVATAR == "Avatar"
AVATAR_PORT == 9090
CLASSIC_PORT == 8080
LIVISI_EVENT_BUTTON_PRESSED == "ButtonPressed"
LIVISI_EVENT_MOTION_DETECTED == "MotionDetected"
LIVISI_EVENT_STATE_CHANGED == "StateChanged"
EVENT_BUTTON_PRESSED == "button_pressed"
EVENT_MOTION_DETECTED == "motion_detected"
LIVISI_STATE_CHANGE == "livisi_state_change"
LIVISI_REACHABILITY_CHANGE == "livisi_reachability_change"
TokenExpiredException == "TokenExpiredException"
ClientConnectorError == "ClientConnectorError"
UpdateFailed == "UpdateFailed"

None == "None"

(* Values of the environment *)

DeviceIds == {"d1", "d2"}
CapIds == {"c1", "c2"}
UnknownCap == "c9"
ControllerTypes == {AVATAR, "Classic"}
SerialNumbers == {"SN1", "SN2"}
\* what async_get_devices of the vendor client may raise
FetchErrors == {TokenExpiredException, ClientConnectorError, "OtherError"}
\* what async_set_token of the vendor client may raise
TokenErrors == {"AuthError"}

\* capability lists of a device
CapLists == {<<>>, <<"c1">>, <<"c2">>, <<"c1", "c2">>}

\* a device dict, with or without the key "capabilities"
Devices ==
    {[id |-> d] : d \in DeviceIds}
        \cup {[id |-> d, capabilities |-> cs] : d \in DeviceIds, cs \in CapLists}

RECURSIVE ListsUpTo(_, _)
ListsUpTo(S, n) ==
    IF n = 0 THEN {<<>>}
    ELSE LET shorter == ListsUpTo(S, n - 1)
         IN shorter \cup {Append(l, e) : l \in {m \in shorter : Len(m) = n - 1}, e \in S}

DeviceLists == ListsUpTo(Devices, MaxDevices)

----------------------------------------------------------------------------
(* dict helpers *)

EmptyDict == [k \in {} |-> None]

\* d.get(key, default)
Get(d, key, default) == IF key \in DOMAIN d THEN d[key] ELSE default

\* d[key] = value
Put(d, key, value) ==
    [k \in DOMAIN d \cup {key} |-> IF k = key THEN value ELSE d[k]]

----------------------------------------------------------------------------
(* async_get_devices, lines 104-108: the index built from a fetched list *)

RECURSIVE MapCapabilities(_, _, _)
MapCapabilities(mapping, caps, id) ==
    IF caps = <<>> THEN mapping
    ELSE MapCapabilities(Put(mapping, Head(caps), id), Tail(caps), id)

RECURSIVE MapDevices(_, _)
MapDevices(mapping, devs) ==
    IF devs = <<>> THEN mapping
    ELSE MapDevices(
            MapCapabilities(mapping, Get(Head(devs), "capabilities", <<>>), Head(devs).id),
            Tail(devs))

\* an index that keeps the first device declaring a capability
RECURSIVE MapCapabilitiesKeepFirst(_, _, _)
MapCapabilitiesKeepFirst(mapping, caps, id) ==
    IF caps = <<>> THEN mapping
    ELSE MapCapabilitiesKeepFirst(
            IF Head(caps) \in DOMAIN mapping THEN mapping ELSE Put(mapping, Head(caps), id),
            Tail(caps), id)

RECURSIVE MapDevicesKeepFirst(_, _)
MapDevicesKeepFirst(mapping, devs) ==
    IF devs = <<>> THEN mapping
    ELSE MapDevicesKeepFirst(
            MapCapabilitiesKeepFirst(mapping, Get(Head(devs), "capabilities", <<>>),
                                     Head(devs).id),
            Tail(devs))

CapabilityMappingKeepFirst(devs) == MapDevicesKeepFirst(EmptyDict, devs)

CapabilityMapping(devs) == MapDevices(EmptyDict, devs)

----------------------------------------------------------------------------
(* _async_update_data, lines 66-74 *)

NoCycle == [fetchCalls |-> 0, refreshCalls |-> 0,
            first |-> "none", refresh |-> "none", second |-> "none"]

\* a try statement with the single clause "except Exception"
ExceptClauseCatchAll(exc) == "retry"

\* a try statement without the clause for ClientConnectorError
ExceptClauseNoConnector(exc) ==
    IF exc = TokenExpiredException THEN "retry" ELSE exc

\* which except clause of the try statement takes an exception of the first fetch
ExceptClause(exc) ==
    IF exc = TokenExpiredException THEN "retry"
    ELSE IF exc = ClientConnectorError THEN UpdateFailed
    ELSE exc

\* an exception raised inside the except clause is not taken by its sibling clauses
RaisedInHandler(exc) == exc

\* an index that is reset before the fetch is awaited
IndexClearedBeforeFetch(index) == EmptyDict

\* the index after a fetch that raised: the assignment of line 108 is not reached
IndexAfterFailedFetch(index) == index

\* an index that is patched in place, over the keys already held
RebuiltIndexPatched(old, devs) == MapDevices(old, devs)

\* lines 104-108: the index is built in a fresh dict and assigned at the end
RebuiltIndex(old, devs) == CapabilityMapping(devs)

\* a cycle that empties the index before it fetches
PollStartClearsIndex ==
    /\ pc = "idle"
    /\ pc' = "fetch1"
    /\ cycle' = [NoCycle EXCEPT !.fetchCalls = 1, !.first = "pending"]
    /\ outcome' = "running"
    /\ result' = <<>>
    /\ fetched' = <<>>
    /\ capability_to_device' = EmptyDict
    /\ UNCHANGED <<devices, data, descVars, rooms, livisi_connection_data, setupVars,
                   queryVars, streamVars, sinkVars>>

\* the scheduler calls _async_update_data; the first fetch is in flight
PollStart ==
    /\ pc = "idle"
    /\ pc' = "fetch1"
    /\ cycle' = [NoCycle EXCEPT !.fetchCalls = 1, !.first = "pending"]
    /\ outcome' = "running"
    /\ result' = <<>>
    /\ fetched' = <<>>
    /\ UNCHANGED <<coordVars, livisi_connection_data, setupVars, queryVars,
                   streamVars, sinkVars>>

\* a fetch that also registers every fetched device as known
FirstFetchReturnsRegisters(lists) ==
    /\ pc = "fetch1"
    /\ \E devs \in lists :
        /\ fetched' = devs
        /\ capability_to_device' = RebuiltIndex(capability_to_device, devs)
        /\ result' = devs
        /\ data' = devs
        /\ devices' = devices \cup {devs[i].id : i \in 1..Len(devs)}
    /\ cycle' = [cycle EXCEPT !.first = "ok"]
    /\ outcome' = "ok"
    /\ pc' = "idle"
    /\ UNCHANGED <<serial_number, controller_type, is_avatar, port, rooms,
                   livisi_connection_data, setupVars, queryVars,
                   streamVars, sinkVars>>

\* line 69: the first fetch returns, the index is rebuilt, the list is returned and stored
FirstFetchReturnsFrom(lists) ==
    /\ pc = "fetch1"
    /\ \E devs \in lists :
        /\ fetched' = devs
        /\ capability_to_device' = RebuiltIndex(capability_to_device, devs)
        /\ result' = devs
        /\ data' = devs
    /\ cycle' = [cycle EXCEPT !.first = "ok"]
    /\ outcome' = "ok"
    /\ pc' = "idle"
    /\ UNCHANGED <<devices, serial_number, controller_type, is_avatar, port, rooms,
                   livisi_connection_data, setupVars, queryVars,
                   streamVars, sinkVars>>

FirstFetchReturns == FirstFetchReturnsFrom(DeviceLists)

\* lines 70-74: the first fetch raises
FirstFetchFails ==
    /\ pc = "fetch1"
    /\ \E exc \in FetchErrors :
        /\ IF ExceptClause(exc) = "retry"
           THEN /\ pc' = "refresh"
                /\ cycle' = [cycle EXCEPT !.first = exc, !.refreshCalls = @ + 1,
                                          !.refresh = "pending"]
                /\ outcome' = outcome
           ELSE /\ pc' = "idle"
                /\ cycle' = [cycle EXCEPT !.first = exc]
                /\ outcome' = ExceptClause(exc)
    /\ capability_to_device' = IndexAfterFailedFetch(capability_to_device)
    /\ UNCHANGED <<devices, data, serial_number, controller_type, is_avatar, port, rooms,
                   livisi_connection_data, result, fetched, setupVars, queryVars,
                   streamVars, sinkVars>>

\* line 71 returns, line 72 calls the fetch again
SetTokenReturns ==
    /\ pc = "refresh"
    /\ pc' = "fetch2"
    /\ cycle' = [cycle EXCEPT !.refresh = "ok", !.fetchCalls = @ + 1,
                              !.second = "pending"]
    /\ UNCHANGED <<coordVars, livisi_connection_data, outcome, result, fetched,
                   setupVars, queryVars, streamVars, sinkVars>>

\* line 71 raises
SetTokenFails ==
    /\ pc = "refresh"
    /\ \E exc \in TokenErrors :
        /\ cycle' = [cycle EXCEPT !.refresh = exc]
        /\ outcome' = RaisedInHandler(exc)
    /\ pc' = "idle"
    /\ UNCHANGED <<coordVars, livisi_connection_data, result, fetched, setupVars,
                   queryVars, streamVars, sinkVars>>

\* line 72: the second fetch returns
SecondFetchReturnsFrom(lists) ==
    /\ pc = "fetch2"
    /\ \E devs \in lists :
        /\ fetched' = devs
        /\ capability_to_device' = RebuiltIndex(capability_to_device, devs)
        /\ result' = devs
        /\ data' = devs
    /\ cycle' = [cycle EXCEPT !.second = "ok"]
    /\ outcome' = "ok"
    /\ pc' = "idle"
    /\ UNCHANGED <<devices, serial_number, controller_type, is_avatar, port, rooms,
                   livisi_connection_data, setupVars, queryVars,
                   streamVars, sinkVars>>

SecondFetchReturns == SecondFetchReturnsFrom(DeviceLists)

\* line 72: the second fetch raises
SecondFetchFails ==
    /\ pc = "fetch2"
    /\ \E exc \in FetchErrors :
        /\ cycle' = [cycle EXCEPT !.second = exc]
        /\ outcome' = RaisedInHandler(exc)
    /\ capability_to_device' = IndexAfterFailedFetch(capability_to_device)
    /\ pc' = "idle"
    /\ UNCHANGED <<devices, data, serial_number, controller_type, is_avatar, port, rooms,
                   livisi_connection_data, result, fetched, setupVars, queryVars,
                   streamVars, sinkVars>>

----------------------------------------------------------------------------
(* async_setup, lines 80-99 *)

\* a descriptor that selects the classic port for every controller
ControllerDescriptorClassicPort(type, serial) ==
    [port |-> CLASSIC_PORT,
     is_avatar |-> (type = AVATAR),
     controller_type |-> type,
     serial_number |-> serial]

\* lines 92-99: the controller descriptor derived from the fetched metadata
ControllerDescriptor(type, serial) ==
    [port |-> IF type = AVATAR THEN AVATAR_PORT ELSE CLASSIC_PORT,
     is_avatar |-> (type = AVATAR),
     controller_type |-> type,
     serial_number |-> serial]

NoController == [controllerType |-> None, serialNumber |-> None]

\* what async_get_controller of the vendor client may raise
ControllerErrors == {"ConnectivityError"}

\* a setup that authenticates whether or not connection data is held
FirstSetupStepAlwaysToken(held) == "token"

\* line 82: authenticate only when the vendor client holds no connection data
FirstSetupStep(held) == IF ~held THEN "token" ELSE "controller"

SetupStart ==
    /\ setupPc = "idle"
    /\ setupPc' = FirstSetupStep(livisi_connection_data)
    /\ setupOutcome' = "running"
    /\ UNCHANGED <<coordVars, livisi_connection_data, controller_data, pollVars,
                   queryVars, streamVars, sinkVars>>

\* line 88 returns: the vendor client now holds the connection data
SetupTokenReturns ==
    /\ setupPc = "token"
    /\ livisi_connection_data' = TRUE
    /\ setupPc' = "controller"
    /\ UNCHANGED <<coordVars, setupOutcome, controller_data, pollVars, queryVars,
                   streamVars, sinkVars>>

\* line 88 raises: async_setup raises
SetupTokenFails ==
    /\ setupPc = "token"
    /\ setupPc' = "idle"
    /\ \E exc \in TokenErrors : setupOutcome' = exc
    /\ UNCHANGED <<coordVars, livisi_connection_data, controller_data, pollVars,
                   queryVars, streamVars, sinkVars>>

\* line 91 returns; lines 92-99 store the descriptor
SetupControllerReturns ==
    /\ setupPc = "controller"
    /\ \E type \in ControllerTypes, serial \in SerialNumbers :
        LET desc == ControllerDescriptor(type, serial)
        IN /\ controller_data' = [controllerType |-> type, serialNumber |-> serial]
           /\ port' = desc.port
           /\ is_avatar' = desc.is_avatar
           /\ controller_type' = desc.controller_type
           /\ serial_number' = desc.serial_number
    /\ setupPc' = "idle"
    /\ setupOutcome' = "ok"
    /\ UNCHANGED <<devices, capability_to_device, data, rooms, livisi_connection_data,
                   pollVars, queryVars, streamVars, sinkVars>>

\* line 91 raises: async_setup raises
SetupControllerFails ==
    /\ setupPc = "controller"
    /\ setupPc' = "idle"
    /\ \E exc \in ControllerErrors : setupOutcome' = exc
    /\ UNCHANGED <<coordVars, livisi_connection_data, controller_data, pollVars,
                   queryVars, streamVars, sinkVars>>

----------------------------------------------------------------------------
(* _async_dispatcher_send, lines 76-78 *)

Publish(kind, source, value) ==
    [kind |-> "publish", event |-> kind, source |-> source, data |-> value]

\* what one call of the helper sends
DispatcherSend(kind, source, value) ==
    IF value # None THEN <<Publish(kind, source, value)>> ELSE <<>>

----------------------------------------------------------------------------
(* The event stream: ws_connect, the transport, on_close (lines 173-182) *)

NoEvent ==
    [type |-> None, source |-> None, properties |-> EmptyDict, onState |-> None,
     vrccData |-> None, isOpen |-> None, luminance |-> None, isReachable |-> None]

\* self.websocket.connect(self.on_data, self.on_close, p)
ConnectCall(p) == [kind |-> "connect", port |-> p]

LifecycleState(ss, i) == IF i \in 1..Len(ss) THEN ss[i].state ELSE "Disconnected"

\* the orders in which "for device_id in self.devices" may visit a set
Orders(S) ==
    {o \in [1..Cardinality(S) -> S] : \A i, j \in 1..Cardinality(S) : i # j => o[i] # o[j]}

\* lines 175-176
RECURSIVE Broadcast(_)
Broadcast(order) ==
    IF Len(order) = 0 THEN <<>>
    ELSE DispatcherSend(LIVISI_REACHABILITY_CHANGE, order[1], "False")
            \o Broadcast([i \in 1..(Len(order) - 1) |-> order[i + 1]])

\* a reconnect to the port the stream was first opened on
ReconnectPortOfFirstConnect(current, original) == original

\* line 178: the port argument of the reconnect is self.port as it is now
ReconnectPort(current, original) == current

\* a handler that reconnects before it broadcasts
OnCloseSendsConnectFirst(order, p) == <<ConnectCall(p)>> \o Broadcast(order)

\* lines 175-178: the broadcast, then the reconnect
OnCloseSends(order, p) == Broadcast(order) \o <<ConnectCall(p)>>

\* an entity registers its device id in self.devices
AddDevice ==
    /\ \E d \in DeviceIds \ devices : devices' = devices \cup {d}
    /\ UNCHANGED <<capability_to_device, data, serial_number, controller_type,
                   is_avatar, port, rooms, livisi_connection_data, pollVars, setupVars, queryVars,
                   streamVars, sinkVars>>

\* lines 180-182
WsConnect ==
    /\ Len(streams) < MaxStreams
    /\ streams' = Append(streams, [state |-> "Connecting", port |-> port, orig |-> port])
    /\ event' = NoEvent
    /\ out' = <<ConnectCall(port)>>
    /\ fired' = <<>>
    /\ raised' = None
    /\ during' = pc
    /\ UNCHANGED <<coordVars, livisi_connection_data, pollVars, setupVars, queryVars,
                   closes>>

\* the transport opens the stream
ConnectOk(i) ==
    /\ LifecycleState(streams, i) = "Connecting"
    /\ streams' = [streams EXCEPT ![i].state = "Connected"]
    /\ UNCHANGED <<coordVars, livisi_connection_data, pollVars, setupVars, queryVars,
                   closes, sinkVars>>

\* the transport signals the closure of the stream
StreamClose(i) ==
    /\ LifecycleState(streams, i) = "Connected"
    /\ closes < MaxCloses
    /\ closes' = closes + 1
    /\ streams' = [streams EXCEPT ![i].state = "Closed"]
    /\ UNCHANGED <<coordVars, livisi_connection_data, pollVars, setupVars, queryVars,
                   sinkVars>>

\* lines 173-178: on_close, called for the closed stream
OnClose(i) ==
    /\ LifecycleState(streams, i) = "Closed"
    /\ \E order \in Orders(devices) :
        out' = OnCloseSends(order, ReconnectPort(port, streams[i].orig))
    /\ streams' = [streams EXCEPT ![i].state = "Connecting",
                                  ![i].port = ReconnectPort(port, streams[i].orig)]
    /\ event' = NoEvent
    /\ fired' = <<>>
    /\ raised' = None
    /\ during' = pc
    /\ UNCHANGED <<coordVars, livisi_connection_data, pollVars, setupVars, queryVars,
                   closes>>

----------------------------------------------------------------------------
(* on_data, lines 136-171 *)

Handled(f, o) == [fired |-> f, out |-> o, raised |-> None]

\* a lookup by subscript, which raises for a missing key
OnDataButtonPressedSubscript(index, ev) ==
    IF ev.source \in DOMAIN index
    THEN Handled(<<[device_id |-> index[ev.source],
                    type |-> EVENT_BUTTON_PRESSED,
                    button_index |-> Get(ev.properties, "index", "0"),
                    press_type |-> Get(ev.properties, "type", "ShortPress")]>>, <<>>)
    ELSE [fired |-> <<>>, out |-> <<>>, raised |-> "KeyError"]

\* a handler that reads the press type without a default
OnDataButtonPressedNoDefault(index, ev) ==
    LET device_id == Get(index, ev.source, None)
    IN  IF device_id # None
        THEN Handled(<<[device_id |-> device_id,
                        type |-> EVENT_BUTTON_PRESSED,
                        button_index |-> Get(ev.properties, "index", "0"),
                        press_type |-> Get(ev.properties, "type", None)]>>, <<>>)
        ELSE Handled(<<>>, <<>>)

\* lines 138-147
OnDataButtonPressed(index, ev) ==
    LET device_id == Get(index, ev.source, None)
    IN  IF device_id # None
        THEN Handled(<<[device_id |-> device_id,
                        type |-> EVENT_BUTTON_PRESSED,
                        button_index |-> Get(ev.properties, "index", "0"),
                        press_type |-> Get(ev.properties, "type", "ShortPress")]>>, <<>>)
        ELSE Handled(<<>>, <<>>)

\* lines 148-155
OnDataMotionDetected(index, ev) ==
    LET device_id == Get(index, ev.source, None)
    IN  IF device_id # None
        THEN Handled(<<[device_id |-> device_id, type |-> EVENT_MOTION_DETECTED]>>, <<>>)
        ELSE Handled(<<>>, <<>>)

\* a handler that sends the reachability flag on the state topic
OnDataStateChangedOneTopic(ev) ==
    Handled(<<>>,
            DispatcherSend(LIVISI_STATE_CHANGE, ev.source, ev.onState)
                \o DispatcherSend(LIVISI_STATE_CHANGE, ev.source, ev.vrccData)
                \o DispatcherSend(LIVISI_STATE_CHANGE, ev.source, ev.isOpen)
                \o DispatcherSend(LIVISI_STATE_CHANGE, ev.source, ev.luminance)
                \o DispatcherSend(LIVISI_STATE_CHANGE, ev.source, ev.isReachable))

\* lines 156-171
OnDataStateChanged(ev) ==
    Handled(<<>>,
            DispatcherSend(LIVISI_STATE_CHANGE, ev.source, ev.onState)
                \o DispatcherSend(LIVISI_STATE_CHANGE, ev.source, ev.vrccData)
                \o DispatcherSend(LIVISI_STATE_CHANGE, ev.source, ev.isOpen)
                \o DispatcherSend(LIVISI_STATE_CHANGE, ev.source, ev.luminance)
                \o DispatcherSend(LIVISI_REACHABILITY_CHANGE, ev.source, ev.isReachable))

\* a chain whose last branch takes every other event as a state change
OnDataResultElseState(index, ev) ==
    IF ev.type = LIVISI_EVENT_BUTTON_PRESSED THEN OnDataButtonPressed(index, ev)
    ELSE IF ev.type = LIVISI_EVENT_MOTION_DETECTED THEN OnDataMotionDetected(index, ev)
    ELSE OnDataStateChanged(ev)

\* the if/elif chain of lines 138, 148, 156
OnDataResult(index, ev) ==
    IF ev.type = LIVISI_EVENT_BUTTON_PRESSED THEN OnDataButtonPressed(index, ev)
    ELSE IF ev.type = LIVISI_EVENT_MOTION_DETECTED THEN OnDataMotionDetected(index, ev)
    ELSE IF ev.type = LIVISI_EVENT_STATE_CHANGED THEN OnDataStateChanged(ev)
    ELSE Handled(<<>>, <<>>)

(* The events the stream may deliver *)

StateFieldValues ==
    [onState : {None, "False"}, vrccData : {None, "0", ""}, isOpen : {None, "True"},
     luminance : {None, "42"}, isReachable : {None, "False"}]

Populated ==
    [onState |-> "False", vrccData |-> "0", isOpen |-> "True", luminance |-> "42",
     isReachable |-> "False"]

PropertyDicts ==
    {EmptyDict, [index |-> "2"], [type |-> "LongPress"],
     [index |-> "2", type |-> "LongPress"]}

MakeEvent(type, source, props, f) ==
    [type |-> type, source |-> source, properties |-> props, onState |-> f.onState,
     vrccData |-> f.vrccData, isOpen |-> f.isOpen, luminance |-> f.luminance,
     isReachable |-> f.isReachable]

EventSources == CapIds \cup {UnknownCap}

\* button, motion and other events without state fields
PlainEvents ==
    {MakeEvent(LIVISI_EVENT_BUTTON_PRESSED, s, p, NoEvent) :
        s \in EventSources, p \in PropertyDicts}
    \cup {MakeEvent(t, s, EmptyDict, NoEvent) :
            t \in {LIVISI_EVENT_MOTION_DETECTED, "DeviceFound"}, s \in EventSources}

StateEvents ==
    {MakeEvent(LIVISI_EVENT_STATE_CHANGED, s, EmptyDict, f) :
        s \in {"c1", UnknownCap}, f \in StateFieldValues}

Events ==
    PlainEvents
    \cup {MakeEvent(t, s, EmptyDict, Populated) :
            t \in {LIVISI_EVENT_BUTTON_PRESSED, LIVISI_EVENT_MOTION_DETECTED,
                    "DeviceFound"},
            s \in EventSources}
    \cup StateEvents

\* the stream loop hands one event of evs to on_data
OnDataFrom(evs) ==
    /\ \E ev \in evs :
        /\ event' = ev
        /\ LET r == OnDataResult(capability_to_device, ev)
           IN /\ fired' = r.fired
              /\ out' = r.out
              /\ raised' = r.raised
              /\ during' = pc
    /\ UNCHANGED <<coordVars, livisi_connection_data, pollVars, setupVars, queryVars,
                   streamVars>>

OnData == OnDataFrom(Events)

----------------------------------------------------------------------------
(* async_get_device_state, lines 111-118 *)

\* a string is the sequence of its characters
Capabilities ==
    {<<>>, <<"/">>, <<"c", "1">>, <<"/", "c", "1">>, <<"/", "c", "2">>,
     <<"/", "/", "c", "1">>}

StateKeys == {"onState", "setpoint", "luminance"}

\* what async_get_device_state of the vendor client returns: nothing, or a
\* dict key -> {"value": v}
NoResponse == [present |-> FALSE, state |-> EmptyDict]

Responses ==
    {NoResponse}
        \cup {[present |-> TRUE, state |-> st] :
                st \in {EmptyDict,
                        [onState |-> [value |-> "True"]],
                        [setpoint |-> [value |-> "21"]],
                        [onState |-> [value |-> "False"], setpoint |-> [value |-> "21"]]}}

NoQuery ==
    [pc |-> "none", capability |-> <<>>, key |-> None, asked |-> <<>>,
     response |-> NoResponse, returned |-> None, raised |-> None]

\* a query that strips every leading "/"
RECURSIVE StripLeadingSlashes(_)
StripLeadingSlashes(capability) ==
    IF Len(capability) > 0 /\ Head(capability) = "/"
    THEN StripLeadingSlashes(Tail(capability))
    ELSE capability

\* line 114: capability[1:]
StripFirstCharacter(capability) ==
    [i \in 1..(IF Len(capability) > 0 THEN Len(capability) - 1 ELSE 0) |->
        capability[i + 1]]

\* lines 116-118
StateValue(response, key) ==
    IF ~response.present THEN None
    ELSE Get(Get(response.state, key, EmptyDict), "value", None)

\* lines 113-115: the call of the vendor client is in flight
GetDeviceStateCall ==
    /\ query.pc # "waiting"
    /\ \E capability \in Capabilities, key \in StateKeys :
        query' = [NoQuery EXCEPT !.pc = "waiting", !.capability = capability,
                                 !.key = key,
                                 !.asked = StripFirstCharacter(capability)]
    /\ UNCHANGED <<coordVars, livisi_connection_data, pollVars, setupVars, lookup,
                   streamVars, sinkVars>>

\* lines 116-118: the vendor client has answered
GetDeviceStateReturns ==
    /\ query.pc = "waiting"
    /\ \E response \in Responses :
        query' = [query EXCEPT !.pc = "done", !.response = response,
                               !.returned = StateValue(response, query.key)]
    /\ UNCHANGED <<coordVars, livisi_connection_data, pollVars, setupVars, lookup,
                   streamVars, sinkVars>>

----------------------------------------------------------------------------
(* async_set_all_rooms and get_room_name, lines 120-134 *)

RoomIds == {"r1", "r2"}
UnknownRoom == "r9"

Room(id, name) == [id |-> id, config |-> [name |-> name]]

\* what async_get_all_rooms of the vendor client returns
RoomLists ==
    {<<>>,
     <<Room("r1", "Kitchen")>>,
     <<Room("r2", "Bath")>>,
     <<Room("r1", "Bath"), Room("r2", "Kitchen")>>,
     <<Room("r1", "Kitchen"), Room("r1", "Bath")>>}

\* the devices handed to get_room_name: without location, with location None,
\* with a location
LookupDevices ==
    {[id |-> "d1"]}
        \cup {[id |-> "d1", location |-> l] : l \in RoomIds \cup {UnknownRoom, None}}

\* the latest two calls of get_room_name, the latest first
NoLookup == <<>>

\* lines 124-126
RECURSIVE StoreRooms(_, _)
StoreRooms(registry, response) ==
    IF response = <<>> THEN registry
    ELSE StoreRooms(Put(registry, Head(response).id, Head(response).config.name),
                    Tail(response))

\* a lookup that falls back to the room id
RoomNameOrId(registry, device) ==
    LET room_id == Get(device, "location", None)
    IN  IF room_id # None THEN Get(registry, room_id, room_id) ELSE None

\* lines 130-134
RoomName(registry, device) ==
    LET room_id == Get(device, "location", None)
    IN  IF room_id # None THEN Get(registry, room_id, None) ELSE None

\* lines 120-126: the fetched rooms are stored over the ones already held
SetAllRooms ==
    /\ \E response \in RoomLists : rooms' = StoreRooms(rooms, response)
    /\ UNCHANGED <<devices, capability_to_device, data, descVars,
                   livisi_connection_data, pollVars, setupVars, queryVars,
                   streamVars, sinkVars>>

\* one call: the device asked for, the registry read, the name returned
LookupCall(registry, device) ==
    [device |-> device, registry |-> registry, name |-> RoomName(registry, device)]

\* lines 128-134
GetRoomName ==
    /\ \E device \in LookupDevices :
        lookup' = <<LookupCall(rooms, device)>>
                    \o (IF lookup = <<>> THEN <<>> ELSE <<lookup[1]>>)
    /\ UNCHANGED <<coordVars, livisi_connection_data, pollVars, setupVars, query,
                   streamVars, sinkVars>>

----------------------------------------------------------------------------

Init ==
    /\ devices = {}
    /\ capability_to_device = EmptyDict
    /\ data = <<>>
    /\ serial_number = ""
    /\ controller_type = ""
    /\ is_avatar = FALSE
    /\ port = 0
    /\ rooms = EmptyDict
    /\ livisi_connection_data = FALSE
    /\ pc = "idle"
    /\ cycle = NoCycle
    /\ outcome = "none"
    /\ result = <<>>
    /\ fetched = <<>>
    /\ setupPc = "idle"
    /\ setupOutcome = "none"
    /\ controller_data = NoController
    /\ query = NoQuery
    /\ lookup = NoLookup
    /\ streams = <<>>
    /\ closes = 0
    /\ event = NoEvent
    /\ out = <<>>
    /\ fired = <<>>
    /\ raised = None
    /\ during = "idle"

NextPoll ==
    \/ PollStart
    \/ FirstFetchReturns
    \/ FirstFetchFails
    \/ SetTokenReturns
    \/ SetTokenFails
    \/ SecondFetchReturns
    \/ SecondFetchFails

SpecPoll == Init /\ [][NextPoll]_vars

NextSetup ==
    \/ SetupStart
    \/ SetupTokenReturns
    \/ SetupTokenFails
    \/ SetupControllerReturns
    \/ SetupControllerFails

NextStream ==
    \/ WsConnect
    \/ \E i \in 1..MaxStreams : ConnectOk(i)
    \/ \E i \in 1..MaxStreams : StreamClose(i)
    \/ \E i \in 1..MaxStreams : OnClose(i)

NextQuery == GetDeviceStateCall \/ GetDeviceStateReturns

NextRooms == SetAllRooms \/ GetRoomName

Next ==
    NextPoll \/ NextSetup \/ NextStream \/ AddDevice \/ OnData \/ NextQuery
        \/ NextRooms

Spec == Init /\ [][Next]_vars

\* the stream with the known device set filling up
NextClose == NextStream \/ AddDevice

SpecClose == Init /\ [][NextClose]_vars

\* the stream next to async_setup; the event loop runs on_close once the
\* transport has called it
NextLifecycle == NextStream \/ NextSetup

SpecLifecycle ==
    /\ Init
    /\ [][NextLifecycle]_vars
    /\ \A i \in 1..MaxStreams : WF_vars(OnClose(i))

\* on_data, dispatched before the first poll or after a poll that returned D
AfterFirstPoll(D) ==
    /\ devices = {}
    /\ capability_to_device = CapabilityMapping(D)
    /\ data = D
    /\ serial_number = ""
    /\ controller_type = ""
    /\ is_avatar = FALSE
    /\ port = 0
    /\ rooms = EmptyDict
    /\ livisi_connection_data = FALSE
    /\ pc = "idle"
    /\ cycle = [NoCycle EXCEPT !.fetchCalls = 1, !.first = "ok"]
    /\ outcome = "ok"
    /\ result = D
    /\ fetched = D
    /\ setupPc = "idle"
    /\ setupOutcome = "none"
    /\ controller_data = NoController
    /\ query = NoQuery
    /\ lookup = NoLookup
    /\ streams = <<>>
    /\ closes = 0
    /\ event = NoEvent
    /\ out = <<>>
    /\ fired = <<>>
    /\ raised = None
    /\ during = "idle"

\* snapshots the first poll may have returned
Snapshots ==
    {<<>>,
     <<[id |-> "d1"]>>,
     <<[id |-> "d2", capabilities |-> <<>>]>>,
     <<[id |-> "d1", capabilities |-> <<"c1", "c2">>]>>,
     <<[id |-> "d1", capabilities |-> <<"c1">>], [id |-> "d2", capabilities |-> <<"c2">>]>>,
     <<[id |-> "d1", capabilities |-> <<"c1">>], [id |-> "d2", capabilities |-> <<"c1">>]>>,
     <<[id |-> "d2", capabilities |-> <<"c2">>], [id |-> "d1"]>>}

InitDispatch == Init \/ \E D \in Snapshots : AfterFirstPoll(D)

SpecDispatch == InitDispatch /\ [][OnData]_vars

\* the state query on its own
SpecQuery == Init /\ [][NextQuery]_vars

\* the room registry and its lookups
SpecRooms == Init /\ [][NextRooms]_vars

\* the integration once its entry is loaded: async_setup, async_set_all_rooms
\* and ws_connect have run, the stream is open, the entities of the devices in
\* known have registered
Running(type, serial, roomList, known) ==
    /\ devices = known
    /\ capability_to_device = EmptyDict
    /\ data = <<>>
    /\ serial_number = ControllerDescriptor(type, serial).serial_number
    /\ controller_type = ControllerDescriptor(type, serial).controller_type
    /\ is_avatar = ControllerDescriptor(type, serial).is_avatar
    /\ port = ControllerDescriptor(type, serial).port
    /\ rooms = StoreRooms(EmptyDict, roomList)
    /\ livisi_connection_data = TRUE
    /\ pc = "idle"
    /\ cycle = NoCycle
    /\ outcome = "none"
    /\ result = <<>>
    /\ fetched = <<>>
    /\ setupPc = "idle"
    /\ setupOutcome = "ok"
    /\ controller_data = [controllerType |-> type, serialNumber |-> serial]
    /\ query = NoQuery
    /\ lookup = NoLookup
    /\ streams = <<[state |-> "Connected",
                    port |-> ControllerDescriptor(type, serial).port,
                    orig |-> ControllerDescriptor(type, serial).port]>>
    /\ closes = 0
    /\ event = NoEvent
    /\ out = <<ConnectCall(ControllerDescriptor(type, serial).port)>>
    /\ fired = <<>>
    /\ raised = None
    /\ during = "idle"

InitRunning ==
    \E type \in ControllerTypes, known \in SUBSET DeviceIds :
        Running(type, "SN1", <<Room("r1", "Kitchen")>>, known)

\* the open stream: state changes arrive, the stream closes and reconnects
NextSink ==
    \/ OnDataFrom(StateEvents)
    \/ \E i \in 1..MaxStreams : ConnectOk(i)
    \/ \E i \in 1..MaxStreams : StreamClose(i)
    \/ \E i \in 1..MaxStreams : OnClose(i)

SpecSink == InitRunning /\ [][NextSink]_vars

\* poll cycles over the sample snapshots
NextPollSample ==
    \/ PollStart
    \/ FirstFetchReturnsFrom(Snapshots)
    \/ FirstFetchFails
    \/ SetTokenReturns
    \/ SetTokenFails
    \/ SecondFetchReturnsFrom(Snapshots)
    \/ SecondFetchFails

\* button and motion events dispatched at every suspension point of the poll
SpecInterleave == Init /\ [][NextPollSample \/ OnDataFrom(PlainEvents)]_vars

\* poll cycles next to entity registration and the closing stream
NextFrame ==
    \/ NextPollSample
    \/ AddDevice
    \/ \E i \in 1..MaxStreams : ConnectOk(i)
    \/ \E i \in 1..MaxStreams : StreamClose(i)
    \/ \E i \in 1..MaxStreams : OnClose(i)

SpecFrame == InitRunning /\ [][NextFrame]_vars

----------------------------------------------------------------------------
(* Properties of the poll cycle *)

CycleEnded == pc = "idle" /\ outcome \notin {"none", "running"}

\* C1: in every poll cycle the fetch is called at most twice and set_token at
\* most once; set_token is called iff the first fetch raised
\* TokenExpiredException, the second fetch is called iff set_token returned,
\* and when the second fetch returns the cycle returns exactly its list.
C1_OneRefreshOneRetry ==
    /\ cycle.fetchCalls <= 2
    /\ cycle.refreshCalls <= 1
    /\ (cycle.refreshCalls = 1) <=> (cycle.first = TokenExpiredException)
    /\ (cycle.fetchCalls = 2) <=> (cycle.refresh = "ok")
    /\ (pc = "idle" /\ cycle.second = "ok") => (outcome = "ok" /\ result = fetched)

C1_Witness ==
    /\ CycleEnded
    /\ cycle.first = TokenExpiredException
    /\ cycle.refreshCalls = 1
    /\ cycle.fetchCalls = 2
    /\ cycle.second = "ok"
    /\ Len(result) = 2

\* C2: a cycle whose first fetch raised TokenExpiredException and whose
\* retried fetch raised too (token expired or connector error) ends in
\* UpdateFailed.
C2_RetryFailureIsUpdateFailed ==
    (/\ CycleEnded
     /\ cycle.first = TokenExpiredException
     /\ cycle.second \in {TokenExpiredException, ClientConnectorError})
        => outcome = UpdateFailed

\* C3: a cycle whose first fetch raised ClientConnectorError ends in
\* UpdateFailed with one fetch, no set_token and no second fetch; the next
\* cycle starts again with a first fetch.
C3_ConnectorErrorFailsCycle ==
    /\ [](cycle.first = ClientConnectorError =>
            /\ CycleEnded
            /\ outcome = UpdateFailed
            /\ cycle.fetchCalls = 1
            /\ cycle.refreshCalls = 0
            /\ cycle.refresh = "none"
            /\ cycle.second = "none")
    /\ [][(cycle.first = ClientConnectorError /\ cycle' # cycle) =>
            /\ pc' = "fetch1"
            /\ cycle'.first = "pending"
            /\ cycle'.fetchCalls = 1
            /\ cycle'.refreshCalls = 0]_vars

C3_Witness ==
    /\ CycleEnded
    /\ cycle.first = ClientConnectorError
    /\ outcome = UpdateFailed

\* C4: a step of a poll cycle that is not the successful return of a fetch
\* leaves the capability index and the device snapshot unchanged, so a cycle
\* that ends in failure leaves both as they were when it started.
SuccessfulReturn == pc # "idle" /\ pc' = "idle" /\ outcome' = "ok"

C4_FailedCycleKeepsIndexAndSnapshot ==
    [][~SuccessfulReturn =>
          /\ capability_to_device' = capability_to_device
          /\ data' = data]_vars

C4_Witness ==
    /\ CycleEnded
    /\ outcome # "ok"
    /\ cycle.second \in FetchErrors
    /\ DOMAIN capability_to_device = CapIds
    /\ Len(data) = 2

\* C5: after a successful async_get_devices returning D the keys of the
\* capability index are exactly the capability ids declared by the devices of
\* D, and each key maps to the id of the last device of D that declares it.
Declared(dev) == {Get(dev, "capabilities", <<>>)[i] :
                    i \in 1..Len(Get(dev, "capabilities", <<>>))}

DeclaredBy(D) == UNION {Declared(D[i]) : i \in 1..Len(D)}

LastDeclaring(D, c) ==
    CHOOSE i \in 1..Len(D) :
        /\ c \in Declared(D[i])
        /\ \A j \in (i + 1)..Len(D) : c \notin Declared(D[j])

C5_IndexIsDeclaredCapabilities ==
    (pc = "idle" /\ outcome = "ok") =>
        /\ DOMAIN capability_to_device = DeclaredBy(result)
        /\ \A c \in DOMAIN capability_to_device :
              capability_to_device[c] = result[LastDeclaring(result, c)].id

C5_Witness ==
    /\ pc = "idle"
    /\ outcome = "ok"
    /\ Len(result) = 2
    /\ result[1].id # result[2].id
    /\ "c1" \in Declared(result[1]) \cap Declared(result[2])
    /\ capability_to_device["c1"] = result[2].id

----------------------------------------------------------------------------
(* Properties of the event stream *)

ClosureHandled(i) ==
    /\ LifecycleState(streams, i) = "Closed"
    /\ LifecycleState(streams', i) = "Connecting"

\* the trace of one on_close: one unreachable publish per known device, then
\* the connect call
BroadcastThenReconnect(known, trace) ==
    /\ Len(trace) = Cardinality(known) + 1
    /\ trace[Len(trace)].kind = "connect"
    /\ \A k \in 1..(Len(trace) - 1) :
          /\ trace[k].kind = "publish"
          /\ trace[k] = Publish(LIVISI_REACHABILITY_CHANGE, trace[k].source, "False")
          /\ trace[k].source \in known
    /\ \A d \in known :
          Cardinality({k \in 1..Len(trace) :
                          trace[k].kind = "publish" /\ trace[k].source = d}) = 1

\* C6: on every stream closure on_close publishes "unreachable" (False on the
\* reachability topic) once for each device id in self.devices at that moment,
\* and all of these publishes come before the reconnect call.
C6_BroadcastBeforeReconnect ==
    [][\A i \in 1..MaxStreams :
          ClosureHandled(i) => BroadcastThenReconnect(devices, out')]_vars

C6_Witness ==
    /\ devices = DeviceIds
    /\ Len(out) = 3
    /\ out[1].kind = "publish"
    /\ out[2].kind = "publish"
    /\ out[3].kind = "connect"
    /\ \E i \in 1..Len(streams) : streams[i].state = "Connecting"
    /\ closes > 0

AllowedTransitions ==
    {<<"Disconnected", "Connecting">>, <<"Connecting", "Connected">>,
     <<"Connected", "Closed">>, <<"Closed", "Connecting">>}

\* C7 as stated: every reconnect uses the port of the original ws_connect.
C7_ReconnectOnOriginalPort ==
    \A i \in 1..Len(streams) : streams[i].port = streams[i].orig

\* C7 as amended: each stream moves only along Disconnected -> Connecting ->
\* Connected -> Closed -> Connecting; the reconnect after a closure uses
\* self.port as it is when on_close runs; and every closure, however many have
\* come before, is followed by a reconnect attempt.
C7_LifecycleReconnectsOnCurrentPort ==
    /\ [][\A i \in 1..MaxStreams :
            LifecycleState(streams', i) # LifecycleState(streams, i) =>
                /\ <<LifecycleState(streams, i), LifecycleState(streams', i)>>
                        \in AllowedTransitions
                /\ LifecycleState(streams, i) = "Closed" =>
                        /\ streams'[i].port = port
                        /\ out'[Len(out')] = ConnectCall(port)]_vars
    /\ \A i \in 1..MaxStreams :
            (LifecycleState(streams, i) = "Closed")
                ~> (LifecycleState(streams, i) = "Connecting")

C7_Witness ==
    /\ closes = 2
    /\ Len(streams) = 1
    /\ streams[1].state = "Connected"
    /\ streams[1].orig = CLASSIC_PORT
    /\ streams[1].port = AVATAR_PORT

----------------------------------------------------------------------------
(* Properties of on_data *)

Resolvable == event.source \in DOMAIN capability_to_device

\* C8: a ButtonPressed or MotionDetected event whose source is not a key of
\* the capability index (the index may be empty) fires no bus event, sends no
\* publish and raises no error.
C8_UnknownCapabilityDropped ==
    (/\ event.type \in {LIVISI_EVENT_BUTTON_PRESSED, LIVISI_EVENT_MOTION_DETECTED}
     /\ ~Resolvable)
        => (fired = <<>> /\ out = <<>> /\ raised = None)

C8_Witness ==
    /\ event.type = LIVISI_EVENT_BUTTON_PRESSED
    /\ event.source = UnknownCap
    /\ DOMAIN capability_to_device = CapIds
    /\ fired = <<>>

\* C9: a ButtonPressed event with a resolvable source fires exactly one bus
\* event with the index's device id, the kind "button_pressed", the event's
\* index or 0, and the event's press type or "ShortPress"; a resolvable
\* MotionDetected event fires exactly one bus event with only the device id
\* and the kind "motion_detected".
C9_ResolvableEventFired ==
    /\ (event.type = LIVISI_EVENT_BUTTON_PRESSED /\ Resolvable) =>
          /\ Len(fired) = 1
          /\ DOMAIN fired[1] = {"device_id", "type", "button_index", "press_type"}
          /\ fired[1].device_id = capability_to_device[event.source]
          /\ fired[1].type = EVENT_BUTTON_PRESSED
          /\ fired[1].button_index =
                (IF "index" \in DOMAIN event.properties
                 THEN event.properties["index"] ELSE "0")
          /\ fired[1].press_type =
                (IF "type" \in DOMAIN event.properties
                 THEN event.properties["type"] ELSE "ShortPress")
    /\ (event.type = LIVISI_EVENT_MOTION_DETECTED /\ Resolvable) =>
          /\ Len(fired) = 1
          /\ DOMAIN fired[1] = {"device_id", "type"}
          /\ fired[1].device_id = capability_to_device[event.source]
          /\ fired[1].type = EVENT_MOTION_DETECTED

C9_Witness ==
    /\ event.type = LIVISI_EVENT_BUTTON_PRESSED
    /\ event.source = "c1"
    /\ event.properties = [index |-> "2"]
    /\ Len(data) = 2
    /\ fired = <<[device_id |-> "d2", type |-> EVENT_BUTTON_PRESSED,
                  button_index |-> "2", press_type |-> "ShortPress"]>>

StateFields == {"onState", "vrccData", "isOpen", "luminance"}

PublishesOn(kind) == SelectSeq(out, LAMBDA p : p.kind = "publish" /\ p.event = kind)

----------------------------------------------------------------------------
(* Claims about the dispatch sink, setup and the lookups *)

EmptyPayloads == {None, ""}

\* C11: over any sequence of StateChanged dispatches and stream closures, no
\* publish to the dispatch sink carries an absent or empty payload.
C11_NoEmptyPayload ==
    \A k \in 1..Len(out) :
        out[k].kind = "publish" => out[k].data \notin EmptyPayloads

\* C12: after every successful setup the extended-feature flag is true iff the
\* fetched controller type is the avatar variant, the port is the avatar port
\* when the flag is true and the classic port otherwise, and the stored type
\* and serial number equal the fetched ones, also after a re-run against a
\* controller of the other type.
C12_DescriptorMatchesMetadata ==
    setupOutcome = "ok" =>
        /\ is_avatar <=> (controller_data.controllerType = AVATAR)
        /\ is_avatar => port = AVATAR_PORT
        /\ ~is_avatar => port = CLASSIC_PORT
        /\ controller_type = controller_data.controllerType
        /\ serial_number = controller_data.serialNumber

\* a classic controller set up after a stream was opened on the avatar port
C12_Witness ==
    /\ setupOutcome = "ok"
    /\ Len(streams) > 0
    /\ streams[1].orig = AVATAR_PORT
    /\ controller_data = [controllerType |-> "Classic", serialNumber |-> "SN2"]
    /\ port = CLASSIC_PORT
    /\ ~is_avatar

\* C13: setup authenticates iff the vendor client holds no connection data,
\* and does so before it fetches the controller metadata; a failure of the
\* authentication or of the metadata fetch ends setup with that error, without
\* a retry, and leaves port, flag, controller type and serial number unchanged.
C13_AuthenticateOnlyWithoutCredentials ==
    [][/\ (setupPc = "idle" /\ setupPc' # "idle") =>
            ((setupPc' = "token") <=> ~livisi_connection_data)
       /\ (setupPc # "controller" /\ setupPc' = "controller") =>
            \/ setupPc = "token"
            \/ setupPc = "idle" /\ livisi_connection_data
       /\ controller_data' # controller_data => setupPc = "controller"
       /\ setupPc = "token" => setupPc' \in {"token", "controller", "idle"}
       /\ setupPc = "controller" => setupPc' \in {"controller", "idle"}
       /\ (setupPc = "token" /\ setupPc' = "idle") =>
            /\ setupOutcome' \in TokenErrors
            /\ UNCHANGED descVars
       /\ (setupPc = "controller" /\ setupPc' = "idle" /\ setupOutcome' # "ok") =>
            /\ setupOutcome' \in ControllerErrors
            /\ UNCHANGED descVars
       /\ (descVars' # descVars) => setupOutcome' = "ok"
      ]_vars

\* a re-run that failed at the metadata fetch and kept the avatar descriptor
C13_Witness ==
    /\ setupPc = "idle"
    /\ setupOutcome \in ControllerErrors
    /\ livisi_connection_data
    /\ port = AVATAR_PORT
    /\ is_avatar
    /\ controller_type = AVATAR

\* C14: get_device_state asks the vendor client for the capability id without
\* exactly its first character and returns the value stored at key in the
\* returned state object; it returns None, raising nothing, when key is absent
\* from the state object and when the vendor client returns nothing.
C14_QueryStripsOneCharacter ==
    /\ query.pc # "none" =>
            /\ query.capability = <<>> => query.asked = <<>>
            /\ query.capability # <<>> =>
                    <<Head(query.capability)>> \o query.asked = query.capability
    /\ query.pc = "done" =>
            /\ query.raised = None
            /\ (query.response.present /\ query.key \in DOMAIN query.response.state) =>
                    query.returned = query.response.state[query.key].value
            /\ ~query.response.present => query.returned = None
            /\ query.key \notin DOMAIN query.response.state => query.returned = None

\* "//c1" is asked as "/c1" and the setpoint of the answer is returned
C14_Witness ==
    /\ query.pc = "done"
    /\ query.capability = <<"/", "/", "c", "1">>
    /\ query.asked = <<"/", "c", "1">>
    /\ query.key = "setpoint"
    /\ query.response.present
    /\ query.returned = "21"

RoomNamesReturned ==
    /\ \A k \in 1..Len(lookup) :
        LET call == lookup[k]
            located == /\ "location" \in DOMAIN call.device
                       /\ call.device.location # None
        IN  /\ (located /\ call.device.location \in DOMAIN call.registry) =>
                    call.name = call.registry[call.device.location]
            /\ ~located => call.name = None
            /\ (located /\ call.device.location \notin DOMAIN call.registry) =>
                    call.name = None
    /\ \A j, k \in 1..Len(lookup) :
        (lookup[j].device = lookup[k].device /\ lookup[j].registry = lookup[k].registry)
            => lookup[j].name = lookup[k].name

\* C15: get_room_name returns the registry's name for the device's location
\* when the device has a location that is a key of the registry, and None when
\* the device has no location or the location is not in the registry; it
\* changes no coordinator state, so two calls with the same device and the
\* same registry return the same name.
C15_RoomNameLookup ==
    /\ []RoomNamesReturned
    /\ [][lookup' # lookup =>
            /\ lookup'[1].registry = rooms
            /\ UNCHANGED <<coordVars, livisi_connection_data>>]_vars

\* the same device looked up twice in an unchanged registry
C15_Witness ==
    /\ Len(lookup) = 2
    /\ lookup[1].device = [id |-> "d1", location |-> "r1"]
    /\ lookup[2].device = lookup[1].device
    /\ lookup[2].registry = lookup[1].registry
    /\ lookup[1].name = "Kitchen"
    /\ lookup[2].name = "Kitchen"

StreamOpen ==
    \E i \in 1..Len(streams) : streams[i].state \in {"Connecting", "Connected"}

\* C16: ws_connect called while the stream is Connecting or Connected leaves
\* the lifecycle as a single call left it and opens no second stream
\* connection.
C16_WsConnectIdempotent ==
    [][StreamOpen => Len(streams') = Len(streams)]_vars

\* the complete index of a device list: every declared capability, mapped to
\* the last device that declares it
IndexOf(D) == [c \in DeclaredBy(D) |-> D[LastDeclaring(D, c)].id]

\* the poll cycle is suspended in a vendor client call
InFlight == {"fetch1", "refresh", "fetch2"}

\* C17: an event dispatched at any suspension point of a poll cycle (first
\* fetch, token refresh or retried fetch in flight) is resolved against the
\* complete index from before the cycle, and after the cycle against the
\* complete index of the cycle's fetched list; the index is never empty for a
\* non-empty snapshot, partially built or mixed.
C17_DispatchSeesOldOrNewIndex ==
    /\ [](capability_to_device = IndexOf(data))
    /\ [][/\ (pc \in InFlight /\ ~SuccessfulReturn) =>
               capability_to_device' = capability_to_device
          /\ SuccessfulReturn => capability_to_device' = IndexOf(fetched')
          /\ (<<event, fired, during>>' # <<event, fired, during>>) =>
               LET seen == IndexOf(data)
               IN  /\ during' = pc
                   /\ (/\ event'.type \in {LIVISI_EVENT_BUTTON_PRESSED,
                                            LIVISI_EVENT_MOTION_DETECTED}
                       /\ event'.source \in DOMAIN seen) =>
                           (/\ Len(fired') = 1
                            /\ fired'[1].device_id = seen[event'.source])
                   /\ (event'.source \notin DOMAIN seen) => (fired' = <<>>)
         ]_vars

\* a button press dispatched while the token refresh is in flight, resolved by
\* the index of the snapshot held from the poll before
C17_Witness ==
    /\ pc = "fetch2"
    /\ during = "refresh"
    /\ data = <<[id |-> "d1", capabilities |-> <<"c1">>],
                [id |-> "d2", capabilities |-> <<"c1">>]>>
    /\ event.type = LIVISI_EVENT_BUTTON_PRESSED
    /\ event.source = "c1"
    /\ Len(fired) = 1
    /\ fired[1].device_id = "d2"

\* C18: at every suspension point, after any sequence of successful and failed
\* poll cycles, every key of the index is a capability listed by some device
\* of the snapshot held from the latest successful poll; index and snapshot
\* change only when a fetch has returned, the index being rebuilt from the
\* fetched list and the snapshot replaced by it in the same step, so that no
\* state holds a new index next to an old snapshot.
C18_IndexKeysDeclaredBySnapshot ==
    /\ [](DOMAIN capability_to_device \subseteq DeclaredBy(data))
    /\ [][(capability_to_device' # capability_to_device \/ data' # data) =>
            /\ pc \in {"fetch1", "fetch2"}
            /\ cycle'.fetchCalls = cycle.fetchCalls
            /\ capability_to_device' = IndexOf(fetched')
            /\ data' = fetched'
            /\ pc' = "idle"
         ]_vars

\* a later cycle is suspended in the token refresh while index and snapshot
\* of the poll before are held
C18_Witness ==
    /\ pc = "refresh"
    /\ data = <<[id |-> "d1", capabilities |-> <<"c1", "c2">>], [id |-> "d2"]>>
    /\ DOMAIN capability_to_device = {"c1", "c2"}
    /\ fetched = <<>>

PollStep == pollVars' # pollVars

\* the devices a handler's trace tells to be unreachable
ToldUnreachable(trace) ==
    {trace[k].source :
        k \in {j \in 1..Len(trace) :
                 /\ trace[j].kind = "publish"
                 /\ trace[j].event = LIVISI_REACHABILITY_CHANGE}}

\* C19: a step of a poll cycle, successful or failed, leaves the room
\* registry, the controller descriptor and the known device set unchanged; a
\* stream closure tells exactly the known devices to be unreachable, so a
\* device of a polled snapshot is told only if it was registered otherwise.
C19_PollKeepsRegistries ==
    [][/\ PollStep => UNCHANGED <<rooms, descVars, devices>>
       /\ \A i \in 1..MaxStreams :
            ClosureHandled(i) => ToldUnreachable(out') = devices
      ]_vars

\* d2 was polled but never registered: the closure tells only d1
C19_Witness ==
    /\ data = <<[id |-> "d1", capabilities |-> <<"c1">>],
                [id |-> "d2", capabilities |-> <<"c2">>]>>
    /\ devices = {"d1"}
    /\ closes > 0
    /\ out = <<Publish(LIVISI_REACHABILITY_CHANGE, "d1", "False"), ConnectCall(port)>>

EventKinds ==
    {LIVISI_EVENT_BUTTON_PRESSED, LIVISI_EVENT_MOTION_DETECTED, LIVISI_EVENT_STATE_CHANGED}

\* the publishes of a state change as the event alone determines them
PublishesOf(ev) ==
    LET sent == <<[topic |-> LIVISI_STATE_CHANGE, value |-> ev.onState],
                  [topic |-> LIVISI_STATE_CHANGE, value |-> ev.vrccData],
                  [topic |-> LIVISI_STATE_CHANGE, value |-> ev.isOpen],
                  [topic |-> LIVISI_STATE_CHANGE, value |-> ev.luminance],
                  [topic |-> LIVISI_REACHABILITY_CHANGE, value |-> ev.isReachable]>>
        kept == SelectSeq(sent, LAMBDA p : p.value # None)
    IN  [k \in 1..Len(kept) |-> Publish(kept[k].topic, ev.source, kept[k].value)]

\* C20: on_data leaves the index, the room registry, the known device set and
\* the controller descriptor unchanged for every event; the publishes of a
\* StateChanged event are determined by the event alone, whether or not its
\* source is a key of the index, and it fires no host event; an event of a
\* kind other than ButtonPressed, MotionDetected, StateChanged fires no host
\* event and publishes nothing.
C20_DispatchReadsOnly ==
    [][sinkVars' # sinkVars =>
        /\ UNCHANGED <<capability_to_device, rooms, devices, descVars, data>>
        /\ event'.type = LIVISI_EVENT_STATE_CHANGED =>
                (fired' = <<>> /\ out' = PublishesOf(event'))
        /\ event'.type \notin EventKinds => (fired' = <<>> /\ out' = <<>>)
      ]_vars

\* a state change from a capability that is no key of the non-empty index
C20_Witness ==
    /\ event.type = LIVISI_EVENT_STATE_CHANGED
    /\ event.source = UnknownCap
    /\ DOMAIN capability_to_device = {"c1", "c2"}
    /\ fired = <<>>
    /\ Len(out) = 5

====
